---- MODULE Spec2Model ----
(***************************************************************************)
(* The engine of p2app (src/p2app/engine/main.py): one Engine object that  *)
(* holds at most one sqlite3 connection handle and answers each request    *)
(* event with a finite sequence of response events.  One step of the model *)
(* is one call of Engine.process_event driven to completion by its caller. *)
(*                                                                         *)
(* The storage engine is modelled by what the handlers use of it: a store  *)
(* per path holding the three tables as sets of rows in column order, the  *)
(* rowid rule of INSERT, and a storage error (sqlite3.Error) that any      *)
(* statement may raise, chosen by the environment in every step.  A        *)
(* connection object is known by the store it is on; the connections that  *)
(* are open are counted.                                                   *)
(***************************************************************************)
EXTENDS Integers, Sequences, FiniteSets, TLC

\* Bounds of the model.
MaxRows == 2        \* rows held by all tables of all stores together
MaxConns == 2       \* storage connections opened and not yet closed

VARIABLES
    connection,     \* Engine.connection: the handle, NoConn when None
    live,           \* how many storage connections are opened and not yet closed
    db,             \* the store behind each path: its three tables
    opened,         \* the path of the last sqlite3.connect that succeeded
    connect,        \* what sqlite3.connect did in the last call: "none" (not
                    \* called, or raised), "new" (assigned to an unset handle)
                    \* or "over" (assigned over an open handle)
    request,        \* the type of the request event of the last process_event call
    response,       \* the response events the call yielded, in order
    raised          \* the exception the call raised to its caller, or NoException

vars == <<connection, live, db, opened, connect, request, response, raised>>

----------------------------------------------------------------------------
\* Values.

Paths == {"a.db", "b.db"}
EmptyPath == ""
NoneId == -1
NoConn == "None"
NoException == "None"

Asia == <<"A", "s", "i", "a">>
Europe == <<"E", "u", "r", "o", "p", "e">>
Japan == <<"J", "a", "p", "a", "n">>
Tokyo == <<"T", "o", "k", "y", "o">>
LowerAsia == <<"a", "s", "i", "a">>

ContinentFields == <<"continent_id", "continent_code", "name">>
CountryFields ==
    <<"country_id", "country_code", "name", "continent_id", "wikipedia_link",
      "keywords">>
RegionFields ==
    <<"region_id", "region_code", "local_code", "name", "continent_id",
      "country_id", "wikipedia_link", "keywords">>

\* A namedtuple built from positional arguments: a record over the fields.
NamedTuple(fields, args) ==
    [f \in {fields[i] : i \in 1..Len(fields)} |->
        args[CHOOSE i \in 1..Len(fields) : fields[i] = f]]

\* The constructor raises TypeError unless it gets one argument per field.
Constructs(fields, args) == Len(args) = Len(fields)

Continent(a) == NamedTuple(ContinentFields, a)
Country(a) == NamedTuple(CountryFields, a)
Region(a) == NamedTuple(RegionFields, a)

Event(type, arg) == [type |-> type, arg |-> arg]

\* Variant of NotFoundMessage: the f-string without its identifier.
NotFoundMessageWithoutId(entity, id) == entity \o " not found"

\* str(e) of a storage error, and the f-string of a missing identifier.
StorageMessage == "sqlite3.Error"
IdStr(id) == IF id = NoneId THEN "None" ELSE ToString(id)
NotFoundMessage(entity, id) == entity \o " with ID " \o IdStr(id) \o " not found"

\* Python truth of a request's optional value: None and the empty string are
\* false.  Codes and paths are strings, names are sequences of characters.
Truthy(v) == v # ""
TruthyName(v) == v # <<>>

----------------------------------------------------------------------------
\* The inputs of the requests.

ReqIds == {NoneId} \cup (1..MaxRows)
NewIds == {NoneId, 1}

\* The values of the fields other than the key that a save request carries:
\* two continents, one country, one region.
ContinentData == {<<"AS", Asia>>, <<"EU", Europe>>}
CountryData == {<<"JP", Japan, 1, "w1", "k1">>}
RegionData == {<<"JP-13", "13", Tokyo, 1, 1, "w1", "k1">>}

\* Values a save-existing request may carry that differ from the stored ones.
CountryEdits == {<<"JP", Japan, 2, "w2", "k2">>}
RegionEdits == {<<"JP-13", "13", Tokyo, 2, 2, "w2", "k2">>}

\* The records a save request submits, with an identifier from ids.
ContinentRecords(ids) == {Continent(<<id>> \o d) : id \in ids, d \in ContinentData}
CountryRecords(ids) == {Country(<<id>> \o d) : id \in ids, d \in CountryData}
RegionRecords(ids) == {Region(<<id>> \o d) : id \in ids, d \in RegionData}

\* The filters a search request carries: "" and <<>> stand for an absent one.
ContinentFilters ==
    {<<"", <<>>>>, <<"AS", <<>>>>, <<"", Asia>>, <<"AS", Asia>>, <<"", LowerAsia>>}
CountryFilters == {<<"", <<>>>>, <<"JP", <<>>>>, <<"", Japan>>, <<"JP", Japan>>}
RegionFilters ==
    {<<"", "", <<>>>>, <<"JP-13", "", <<>>>>, <<"", "13", <<>>>>,
     <<"", "", Tokyo>>, <<"JP-13", "13", Tokyo>>}

\* The statement of a call that raises sqlite3.Error: none, its INSERT or
\* UPDATE, or its SELECT.
Faults == {"ok", "write", "read"}
ReadFaults == {"ok", "read"}
WriteFaults == {"ok", "write"}

----------------------------------------------------------------------------
\* Storage.

EmptyTables == [continents |-> {}, country |-> {}, regions |-> {}]

TotalRows(d) ==
    LET n(p) == Cardinality(d[p].continents) + Cardinality(d[p].country)
                    + Cardinality(d[p].regions)
        RECURSIVE Sum(_)
        Sum(S) == IF S = {} THEN 0
                  ELSE LET p == CHOOSE q \in S : TRUE IN n(p) + Sum(S \ {p})
    IN Sum(DOMAIN d)

RowIds(table) == {r[1] : r \in table}

\* Variant of LastRowId: the largest key in use is given again.
LastRowIdIsMax(table) ==
    IF table = {} THEN 1
    ELSE CHOOSE i \in {r[1] : r \in table} : \A j \in {r[1] : r \in table} : j <= i

\* cursor.lastrowid after an INSERT that names no key: one past the largest.
LastRowId(table) ==
    IF table = {} THEN 1
    ELSE (CHOOSE i \in RowIds(table) : \A j \in RowIds(table) : j <= i) + 1

Insert(table, values) == table \cup {<<LastRowId(table)>> \o values}

\* Variant of Update: the UPDATE changes no row.
UpdateNothing(table, id, values) == table

\* UPDATE <table> SET <columns> = ? WHERE <key> = ?
Update(table, id, values) ==
    {IF r[1] = id THEN <<r[1]>> \o values ELSE r : r \in table}

\* Variant of SelectById: the SELECT without its WHERE clause.
SelectWithoutWhere(table, id) == table

\* SELECT * FROM <table> WHERE <key> = ?
SelectById(table, id) == {r \in table : r[1] = id}

\* fetchall(): the rows in rowid order.
RECURSIVE FetchAll(_)
FetchAll(rows) ==
    IF rows = {} THEN <<>>
    ELSE LET r == CHOOSE s \in rows : \A t \in rows : s[1] <= t[1]
         IN <<r>> \o FetchAll(rows \ {r})

\* The 26 letters, for the ASCII case folding of LIKE.
UpperCase ==
    <<"A", "B", "C", "D", "E", "F", "G", "H", "I", "J", "K", "L", "M", "N", "O",
      "P", "Q", "R", "S", "T", "U", "V", "W", "X", "Y", "Z">>
LowerCase ==
    <<"a", "b", "c", "d", "e", "f", "g", "h", "i", "j", "k", "l", "m", "n", "o",
      "p", "q", "r", "s", "t", "u", "v", "w", "x", "y", "z">>
Fold(ch) ==
    IF \E i \in 1..Len(UpperCase) : UpperCase[i] = ch
    THEN LowerCase[CHOOSE i \in 1..Len(UpperCase) : UpperCase[i] = ch]
    ELSE ch

\* Variant of Like: the letters are compared as they are.
LikeCaseSensitive(value, name) ==
    \E i \in 0..(Len(value) - Len(name)) :
        \A j \in 1..Len(name) : value[i + j] = name[j]

\* value LIKE '%name%' for a name without the wildcards % and _: name occurs
\* in value, ASCII letters compared folded (LIKE ignores their case).
Like(value, name) ==
    \E i \in 0..(Len(value) - Len(name)) :
        \A j \in 1..Len(name) : Fold(value[i + j]) = Fold(name[j])

----------------------------------------------------------------------------
\* What a handler call leaves.  A lifecycle handler leaves a handle and a set
\* of live connections; an entity handler leaves the tables behind the handle.
\* Both leave the events they yielded and the exception they raised.

Outcome(c, n, events, exc) ==
    [connection |-> c, live |-> n, response |-> events, raised |-> exc]

Result(t, events, exc) == [tables |-> t, response |-> events, raised |-> exc]

\* Variant of NoConnection: a handler that reports the missing connection.
NoConnectionReported(t) ==
    Result(t, <<Event("ErrorEvent", "No database is open")>>, NoException)

\* "if self.connection:": a Connection object is true, None is false; with
\* no else branch the generator ends without an event.
HasConnection == connection # NoConn
NoConnection(t) == Result(t, <<>>, NoException)

\* The tables seen through the handle.
Tables == IF HasConnection THEN db[connection] ELSE EmptyTables

----------------------------------------------------------------------------
\* Connection lifecycle.

\* sqlite3.connect(path): a new connection object on the store at path.
Connect(path) == path

\* Variant of open_database: the new connection is assigned only to an unset
\* handle, so an Open over an open handle keeps the previous connection.
open_database_keeps_handle(path, opens, collects) ==
    IF Truthy(path)
    THEN IF opens
         THEN Outcome(IF HasConnection THEN connection ELSE Connect(path),
                      IF HasConnection /\ collects THEN live ELSE live + 1,
                      <<>>, "AttributeError")
         ELSE Outcome(connection, live,
                      <<Event("DatabaseOpenFailedEvent", StorageMessage)>>,
                      NoException)
    ELSE Outcome(connection, live, <<>>, "AttributeError")

\* Engine.open_database(path).  opens tells whether sqlite3.connect succeeds;
\* collects tells whether the runtime finalizes (and so closes) the connection
\* object that the assignment leaves unreferenced: the handler never closes it.
\* Engine.__init__ sets only self.connection, so reading self.db_path raises
\* AttributeError, which "except sqlite3.Error" does not catch: on a false
\* path before any connect, otherwise right after the handle is assigned.
open_database(path, opens, collects) ==
    IF Truthy(path)
    THEN IF opens
         THEN Outcome(Connect(path),
                      IF HasConnection /\ collects THEN live ELSE live + 1,
                      <<>>, "AttributeError")
         ELSE Outcome(connection, live,
                      <<Event("DatabaseOpenFailedEvent", StorageMessage)>>,
                      NoException)
    ELSE Outcome(connection, live, <<>>, "AttributeError")

\* Variant of close_database: the connection is closed and the event yielded,
\* but the handle is not cleared.
close_database_keeps_handle ==
    IF HasConnection
    THEN Outcome(connection, live - 1, <<Event("DatabaseClosedEvent", "")>>,
                 NoException)
    ELSE Outcome(connection, live, <<>>, NoException)

\* Engine.close_database().
close_database ==
    IF HasConnection
    THEN Outcome(NoConn, live - 1, <<Event("DatabaseClosedEvent", "")>>,
                 NoException)
    ELSE Outcome(connection, live, <<>>, NoException)

----------------------------------------------------------------------------
\* Continent handlers.  t is the tables behind the handle, f the statement
\* that raises sqlite3.Error in this call ("ok": none).

ContinentOf(row) == Continent(<<row[1], row[2], row[3]>>)

search_continents(t, continent_code, name, f) ==
    IF ~HasConnection THEN NoConnection(t)
    ELSE IF f = "read" THEN Result(t, <<>>, "sqlite3.Error")
    ELSE LET results ==
                 FetchAll({r \in t.continents :
                              /\ Truthy(continent_code) => r[2] = continent_code
                              /\ TruthyName(name) => Like(r[3], name)})
         IN Result(t,
                   [i \in 1..Len(results) |->
                       Event("ContinentSearchResultEvent", ContinentOf(results[i]))],
                   NoException)

load_continent(t, continent_id, f) ==
    IF ~HasConnection THEN NoConnection(t)
    ELSE IF f = "read" THEN Result(t, <<>>, "sqlite3.Error")
    ELSE LET rows == SelectById(t.continents, continent_id)
         IN IF rows # {}
            THEN Result(t, <<Event("ContinentLoadedEvent",
                                   ContinentOf(CHOOSE r \in rows : TRUE))>>,
                        NoException)
            ELSE Result(t, <<Event("ErrorEvent",
                                   NotFoundMessage("Continent", continent_id))>>,
                        NoException)

\* Variant of save_new_continent: the saved record keeps the identifier the
\* request carried instead of cursor.lastrowid.
save_new_continent_keeps_id(t, continent, f) ==
    IF ~HasConnection THEN NoConnection(t)
    ELSE IF f = "write"
    THEN Result(t, <<Event("SaveContinentFailedEvent", StorageMessage)>>,
                NoException)
    ELSE Result([t EXCEPT !.continents =
                     Insert(@, <<continent.continent_code, continent.name>>)],
                <<Event("ContinentSavedEvent", continent)>>, NoException)

save_new_continent(t, continent, f) ==
    IF ~HasConnection THEN NoConnection(t)
    ELSE IF f = "write"
    THEN Result(t, <<Event("SaveContinentFailedEvent", StorageMessage)>>,
                NoException)
    ELSE LET continent_id == LastRowId(t.continents)
             saved_continent ==
                 Continent(<<continent_id, continent.continent_code,
                             continent.name>>)
         IN Result([t EXCEPT !.continents =
                        Insert(@, <<continent.continent_code, continent.name>>)],
                   <<Event("ContinentSavedEvent", saved_continent)>>, NoException)

\* Variant of save_continent: a record whose identifier matches no row is
\* inserted.
save_continent_upserts(t, continent, f) ==
    IF ~HasConnection THEN NoConnection(t)
    ELSE IF f = "write"
    THEN Result(t, <<Event("SaveContinentFailedEvent", StorageMessage)>>,
                NoException)
    ELSE Result([t EXCEPT !.continents =
                     IF continent.continent_id \in RowIds(@)
                     THEN Update(@, continent.continent_id,
                                 <<continent.continent_code, continent.name>>)
                     ELSE Insert(@, <<continent.continent_code, continent.name>>)],
                <<Event("ContinentSavedEvent", continent)>>, NoException)

save_continent(t, continent, f) ==
    IF ~HasConnection THEN NoConnection(t)
    ELSE IF f = "write"
    THEN Result(t, <<Event("SaveContinentFailedEvent", StorageMessage)>>,
                NoException)
    ELSE Result([t EXCEPT !.continents =
                     Update(@, continent.continent_id,
                            <<continent.continent_code, continent.name>>)],
                <<Event("ContinentSavedEvent", continent)>>, NoException)

----------------------------------------------------------------------------
\* Country handlers: no handler catches sqlite3.Error.

search_countries(t, country_code, name, f) ==
    IF ~HasConnection THEN NoConnection(t)
    ELSE IF f = "read" THEN Result(t, <<>>, "sqlite3.Error")
    ELSE LET results ==
                 FetchAll({r \in t.country :
                              /\ Truthy(country_code) => r[2] = country_code
                              /\ TruthyName(name) => Like(r[3], name)})
         IN Result(t,
                   [i \in 1..Len(results) |->
                       Event("CountrySearchResultEvent",
                             Country(<<results[i][1], results[i][2], results[i][3],
                                       results[i][4], results[i][5],
                                       results[i][6]>>))],
                   NoException)

load_country(t, country_id, f) ==
    IF ~HasConnection THEN NoConnection(t)
    ELSE IF f = "read" THEN Result(t, <<>>, "sqlite3.Error")
    ELSE LET rows == SelectById(t.country, country_id)
             row == CHOOSE r \in rows : TRUE
         IN IF rows # {}
            THEN IF Constructs(CountryFields, row)
                 THEN Result(t, <<Event("CountryLoadedEvent", Country(row))>>,
                             NoException)
                 ELSE Result(t, <<>>, "TypeError")
            ELSE Result(t, <<Event("ErrorEvent",
                                   NotFoundMessage("Country", country_id))>>,
                        NoException)

CountryValues(country) ==
    <<country.country_code, country.name, country.continent_id,
      country.wikipedia_link, country.keywords>>

save_new_country(t, country, f) ==
    IF ~HasConnection THEN NoConnection(t)
    ELSE IF f = "write" THEN Result(t, <<>>, "sqlite3.Error")
    ELSE LET country_id == LastRowId(t.country)
         IN load_country([t EXCEPT !.country = Insert(@, CountryValues(country))],
                         country_id, f)

save_country(t, country, f) ==
    IF ~HasConnection THEN NoConnection(t)
    ELSE IF f = "write" THEN Result(t, <<>>, "sqlite3.Error")
    ELSE load_country([t EXCEPT !.country =
                           Update(@, country.country_id, CountryValues(country))],
                      country.country_id, f)

----------------------------------------------------------------------------
\* Region handlers.

\* search_regions passes row[0] .. row[6] to Region: seven arguments.
RegionSearchArgs(row) ==
    <<row[1], row[2], row[3], row[4], row[5], row[6], row[7]>>

\* Variant of search_regions: the handler without its try/except, as the
\* continent and country searches are written.
search_regions_uncaught(t, region_code, local_code, name, f) ==
    IF ~HasConnection THEN NoConnection(t)
    ELSE IF f = "read" THEN Result(t, <<>>, "sqlite3.Error")
    ELSE LET results ==
                 FetchAll({r \in t.regions :
                              /\ Truthy(region_code) => r[2] = region_code
                              /\ Truthy(local_code) => r[3] = local_code
                              /\ TruthyName(name) => Like(r[4], name)})
         IN IF \A i \in 1..Len(results) :
                   Constructs(RegionFields, RegionSearchArgs(results[i]))
            THEN Result(t,
                        [i \in 1..Len(results) |->
                            Event("RegionSearchResultEvent",
                                  Region(RegionSearchArgs(results[i])))],
                        NoException)
            ELSE Result(t, <<>>, "TypeError")

search_regions(t, region_code, local_code, name, f) ==
    IF ~HasConnection THEN NoConnection(t)
    ELSE IF f = "read"
    THEN Result(t, <<Event("ErrorEvent", StorageMessage)>>, NoException)
    ELSE LET results ==
                 FetchAll({r \in t.regions :
                              /\ Truthy(region_code) => r[2] = region_code
                              /\ Truthy(local_code) => r[3] = local_code
                              /\ TruthyName(name) => Like(r[4], name)})
         IN IF \A i \in 1..Len(results) :
                   Constructs(RegionFields, RegionSearchArgs(results[i]))
            THEN Result(t,
                        [i \in 1..Len(results) |->
                            Event("RegionSearchResultEvent",
                                  Region(RegionSearchArgs(results[i])))],
                        NoException)
            ELSE Result(t, <<>>, "TypeError")

load_region(t, region_id, f) ==
    IF ~HasConnection THEN NoConnection(t)
    ELSE IF f = "read"
    THEN Result(t, <<Event("ErrorEvent", StorageMessage)>>, NoException)
    ELSE LET rows == SelectById(t.regions, region_id)
             row == CHOOSE r \in rows : TRUE
         IN IF rows # {}
            THEN IF Constructs(RegionFields, row)
                 THEN Result(t, <<Event("RegionLoadedEvent", Region(row))>>,
                             NoException)
                 ELSE Result(t, <<>>, "TypeError")
            ELSE Result(t, <<Event("ErrorEvent",
                                   NotFoundMessage("Region", region_id))>>,
                        NoException)

RegionValues(region) ==
    <<region.region_code, region.local_code, region.name, region.continent_id,
      region.country_id, region.wikipedia_link, region.keywords>>

save_new_region(t, region, f) ==
    IF ~HasConnection THEN NoConnection(t)
    ELSE IF f = "write"
    THEN Result(t, <<Event("SaveRegionFailedEvent", StorageMessage)>>, NoException)
    ELSE LET region_id == LastRowId(t.regions)
         IN load_region([t EXCEPT !.regions = Insert(@, RegionValues(region))],
                        region_id, f)

\* Variant of save_region: the handler without its try/except, as the country
\* handler is written.
save_region_uncaught(t, region, f) ==
    IF ~HasConnection THEN NoConnection(t)
    ELSE IF f = "write" THEN Result(t, <<>>, "sqlite3.Error")
    ELSE load_region([t EXCEPT !.regions =
                          Update(@, region.region_id, RegionValues(region))],
                     region.region_id, f)

save_region(t, region, f) ==
    IF ~HasConnection THEN NoConnection(t)
    ELSE IF f = "write"
    THEN Result(t, <<Event("SaveRegionFailedEvent", StorageMessage)>>, NoException)
    ELSE load_region([t EXCEPT !.regions =
                          Update(@, region.region_id, RegionValues(region))],
                     region.region_id, f)

----------------------------------------------------------------------------
\* Engine.process_event: one request, dispatched on its type and driven to
\* the end of its response sequence.

Lifecycle(type, out) ==
    /\ request' = type
    /\ connection' = out.connection
    /\ live' = out.live
    /\ db' = db
    /\ response' = out.response
    /\ raised' = out.raised

\* The stores after an entity handler: it wrote, if at all, through the handle.
DbAfter(res) ==
    IF HasConnection THEN [db EXCEPT ![connection] = res.tables] ELSE db

\* Variant of Handled: a call that raises drops the handle.
HandledDropsHandle(type, res) ==
    /\ request' = type
    /\ connection' = IF res.raised = NoException THEN connection ELSE NoConn
    /\ UNCHANGED <<live, opened>>
    /\ connect' = "none"
    /\ db' = DbAfter(res)
    /\ response' = res.response
    /\ raised' = res.raised

Handled(type, res) ==
    /\ request' = type
    /\ UNCHANGED <<connection, live, opened>>
    /\ connect' = "none"
    /\ db' = DbAfter(res)
    /\ response' = res.response
    /\ raised' = res.raised

\* An INSERT is taken only while the stores hold fewer than MaxRows rows.
MayInsert(f) == (HasConnection /\ f # "write") => TotalRows(db) < MaxRows

OpenDatabaseEvent ==
    \E path \in Paths \cup {EmptyPath}, opens \in BOOLEAN, collects \in BOOLEAN :
        LET out == open_database(path, opens, collects)
        IN /\ out.live <= MaxConns
           /\ opened' = IF Truthy(path) /\ opens THEN path ELSE opened
           /\ connect' = IF ~(Truthy(path) /\ opens) THEN "none"
                         ELSE IF HasConnection THEN "over" ELSE "new"
           /\ Lifecycle("OpenDatabaseEvent", out)

CloseDatabaseEvent ==
    /\ opened' = opened
    /\ connect' = "none"
    /\ Lifecycle("CloseDatabaseEvent", close_database)

StartContinentSearchEvent ==
    \E q \in ContinentFilters, f \in ReadFaults :
        Handled("StartContinentSearchEvent",
                search_continents(Tables, q[1], q[2], f))

LoadContinentEvent ==
    \E continent_id \in ReqIds, f \in ReadFaults :
        Handled("LoadContinentEvent",
                load_continent(Tables, continent_id, f))

SaveNewContinentEvent ==
    \E continent \in ContinentRecords(NewIds), f \in WriteFaults :
        /\ MayInsert(f)
        /\ Handled("SaveNewContinentEvent",
                save_new_continent(Tables, continent, f))

SaveContinentEvent ==
    \E continent \in ContinentRecords(ReqIds), f \in WriteFaults :
        Handled("SaveContinentEvent",
                save_continent(Tables, continent, f))

StartCountrySearchEvent ==
    \E q \in CountryFilters, f \in ReadFaults :
        Handled("StartCountrySearchEvent",
                search_countries(Tables, q[1], q[2], f))

LoadCountryEvent ==
    \E country_id \in ReqIds, f \in ReadFaults :
        Handled("LoadCountryEvent",
                load_country(Tables, country_id, f))

SaveNewCountryEvent ==
    \E country \in CountryRecords(NewIds), f \in Faults :
        /\ MayInsert(f)
        /\ Handled("SaveNewCountryEvent",
                save_new_country(Tables, country, f))

SaveCountryEvent ==
    \E country \in CountryRecords(ReqIds), f \in Faults :
        Handled("SaveCountryEvent",
                save_country(Tables, country, f))

StartRegionSearchEvent ==
    \E q \in RegionFilters, f \in ReadFaults :
        Handled("StartRegionSearchEvent",
                search_regions(Tables, q[1], q[2], q[3], f))

LoadRegionEvent ==
    \E region_id \in ReqIds, f \in ReadFaults :
        Handled("LoadRegionEvent",
                load_region(Tables, region_id, f))

SaveNewRegionEvent ==
    \E region \in RegionRecords(NewIds), f \in Faults :
        /\ MayInsert(f)
        /\ Handled("SaveNewRegionEvent",
                save_new_region(Tables, region, f))

SaveRegionEvent ==
    \E region \in RegionRecords(ReqIds), f \in Faults :
        Handled("SaveRegionEvent",
                save_region(Tables, region, f))

Init ==
    /\ connection = NoConn
    /\ live = 0
    /\ db = [p \in Paths |-> EmptyTables]
    /\ opened = NoConn
    /\ connect = "none"
    /\ request = "None"
    /\ response = <<>>
    /\ raised = NoException

Next ==
    \/ OpenDatabaseEvent
    \/ CloseDatabaseEvent
    \/ StartContinentSearchEvent
    \/ LoadContinentEvent
    \/ SaveNewContinentEvent
    \/ SaveContinentEvent
    \/ StartCountrySearchEvent
    \/ LoadCountryEvent
    \/ SaveNewCountryEvent
    \/ SaveCountryEvent
    \/ StartRegionSearchEvent
    \/ LoadRegionEvent
    \/ SaveNewRegionEvent
    \/ SaveRegionEvent

Spec == Init /\ [][Next]_vars

----------------------------------------------------------------------------
\* Reading a response.

Types(events) == [i \in 1..Len(events) |-> events[i].type]

YieldsOne(events, type, arg) ==
    /\ Len(events) = 1
    /\ events[1].type = type
    /\ events[1].arg = arg

\* The results the twelve entity handlers can give in the current state, over
\* all their inputs.
SearchResults ==
    {search_continents(Tables, q[1], q[2], f) : q \in ContinentFilters, f \in ReadFaults}
    \cup {search_countries(Tables, q[1], q[2], f) : q \in CountryFilters, f \in ReadFaults}
    \cup {search_regions(Tables, q[1], q[2], q[3], f) :
             q \in RegionFilters, f \in ReadFaults}

LoadResults ==
    {load_continent(Tables, id, f) : id \in ReqIds, f \in ReadFaults}
    \cup {load_country(Tables, id, f) : id \in ReqIds, f \in ReadFaults}
    \cup {load_region(Tables, id, f) : id \in ReqIds, f \in ReadFaults}

SaveNewResults ==
    {save_new_continent(Tables, c, f) : c \in ContinentRecords(NewIds), f \in WriteFaults}
    \cup {save_new_country(Tables, c, f) : c \in CountryRecords(NewIds), f \in Faults}
    \cup {save_new_region(Tables, c, f) : c \in RegionRecords(NewIds), f \in Faults}

SaveResults ==
    {save_continent(Tables, c, f) : c \in ContinentRecords(ReqIds), f \in WriteFaults}
    \cup {save_country(Tables, c, f) : c \in CountryRecords(ReqIds), f \in Faults}
    \cup {save_region(Tables, c, f) : c \in RegionRecords(ReqIds), f \in Faults}

----------------------------------------------------------------------------
\* C1: every OpenDatabase(path) request whose storage open succeeds yields
\* exactly one response event, DatabaseOpened carrying the requested path,
\* raises nothing to the caller and leaves a connection open.
C1_SuccessfulOpenYieldsDatabaseOpened ==
    (request = "OpenDatabaseEvent" /\ connect # "none") =>
        /\ YieldsOne(response, "DatabaseOpenedEvent", opened)
        /\ raised = NoException
        /\ connection # NoConn

\* C2: every OpenDatabase request whose storage open fails, the empty path
\* included, yields exactly one DatabaseOpenFailed event and no other event,
\* and leaves the handle as it was before the request.
C2_FailedOpenYieldsDatabaseOpenFailed ==
    /\ (request = "OpenDatabaseEvent" /\ connect = "none") =>
           /\ Types(response) = <<"DatabaseOpenFailedEvent">>
           /\ raised = NoException
    /\ \A path \in Paths \cup {EmptyPath}, collects \in BOOLEAN :
           open_database(path, FALSE, collects).connection = connection

\* C3: CloseDatabase with a connection open closes it, clears the handle and
\* yields exactly one DatabaseClosed event; with no connection open it yields
\* no event and changes nothing.
C3_CloseClosesOrDoesNothing ==
    LET out == close_database
    IN IF connection # NoConn
       THEN /\ out.connection = NoConn
            /\ out.live = live - 1
            /\ Types(out.response) = <<"DatabaseClosedEvent">>
            /\ out.raised = NoException
       ELSE /\ out.connection = NoConn
            /\ out.live = live
            /\ out.response = <<>>
            /\ out.raised = NoException

C3_Witness ==
    /\ request = "CloseDatabaseEvent"
    /\ Types(response) = <<"DatabaseClosedEvent">>
    /\ connection = NoConn
    /\ live = 0

\* C4: while no connection is open, each of the twelve search, load, save-new
\* and save-existing requests yields no response event, raises nothing and
\* leaves the handle and every table as they were.
C4_NoConnectionNoOp ==
    connection = NoConn =>
        \A res \in SearchResults \cup LoadResults \cup SaveNewResults \cup SaveResults :
            /\ res.response = <<>>
            /\ res.raised = NoException
            /\ DbAfter(res) = db

C4_Witness ==
    /\ connection = NoConn
    /\ request = "SaveNewRegionEvent"
    /\ response = <<>>
    /\ raised = NoException
    /\ opened # NoConn

\* C5: after any sequence of requests at most one storage connection is live
\* (opened and not yet closed), also after an Open request issued while a
\* connection is already open.
C5_AtMostOneLiveConnection == live <= 1

\* C6: an Open request that succeeds while a connection is already open
\* replaces the handle: every later search, load and save request reads and
\* writes the newly opened store, never the previously opened one.  The
\* handle is on the store opened last; no entity handler changes another
\* store; and the row a later load or save-new reports is a row of that store.
C6_LaterRequestsUseOpenedStore ==
    connection # NoConn =>
        /\ connection = opened
        /\ \A res \in SearchResults \cup LoadResults \cup SaveNewResults \cup SaveResults :
               \A p \in Paths \ {opened} : DbAfter(res)[p] = db[p]
        /\ (request \in {"LoadContinentEvent", "SaveNewContinentEvent"}
                /\ Len(response) = 1
                /\ response[1].type \in {"ContinentLoadedEvent", "ContinentSavedEvent"}) =>
               \E r \in db[opened].continents : Continent(r) = response[1].arg
        /\ (request \in {"LoadCountryEvent", "SaveNewCountryEvent"}
                /\ Len(response) = 1
                /\ response[1].type = "CountryLoadedEvent") =>
               \E r \in db[opened].country : Country(r) = response[1].arg
        /\ (request \in {"LoadRegionEvent", "SaveNewRegionEvent"}
                /\ Len(response) = 1
                /\ response[1].type = "RegionLoadedEvent") =>
               \E r \in db[opened].regions : Region(r) = response[1].arg

C6_Witness ==
    /\ request = "OpenDatabaseEvent"
    /\ connect = "over"
    /\ connection = "b.db"
    /\ db["a.db"] # EmptyTables
    /\ db["b.db"] = EmptyTables

----------------------------------------------------------------------------
\* What a claim about Load expects of a result res for identifier id: the
\* rows of the table with that key, the entity name of the message, the type
\* of the loaded event and the fields of its record.

LoadAnswers(res, rows, entity, type, fields, id) ==
    IF rows # {}
    THEN \E r \in rows : YieldsOne(res.response, type, NamedTuple(fields, r))
    ELSE YieldsOne(res.response, "ErrorEvent",
                   entity \o " with ID " \o IdStr(id) \o " not found")

\* C7: with a connection open, Load<Entity>(id) yields at most one response
\* event: exactly one <Entity>Loaded carrying the stored row with that key
\* when the row exists, exactly one Error("<Entity> with ID <id> not found")
\* when it does not (the query being executed by storage without error); it
\* never modifies a table.
C7_LoadYieldsRowOrNotFound ==
    connection # NoConn =>
        \A id \in ReqIds, f \in ReadFaults :
            LET c == load_continent(Tables, id, f)
                k == load_country(Tables, id, f)
                r == load_region(Tables, id, f)
            IN /\ Len(c.response) <= 1 /\ DbAfter(c) = db
               /\ Len(k.response) <= 1 /\ DbAfter(k) = db
               /\ Len(r.response) <= 1 /\ DbAfter(r) = db
               /\ f = "ok" =>
                      /\ LoadAnswers(c, {x \in db[connection].continents : x[1] = id},
                                     "Continent", "ContinentLoadedEvent",
                                     ContinentFields, id)
                      /\ LoadAnswers(k, {x \in db[connection].country : x[1] = id},
                                     "Country", "CountryLoadedEvent",
                                     CountryFields, id)
                      /\ LoadAnswers(r, {x \in db[connection].regions : x[1] = id},
                                     "Region", "RegionLoadedEvent", RegionFields, id)
                      /\ c.raised = NoException
                      /\ k.raised = NoException
                      /\ r.raised = NoException

C7_Witness ==
    /\ connection # NoConn
    /\ request = "LoadRegionEvent"
    /\ Types(response) = <<"RegionLoadedEvent">>
    /\ Cardinality(db[connection].regions) = 2
    /\ response[1].arg.region_id = 2

\* C8 as stated: a Load request for an identifier that no stored row carries
\* yields exactly one Error event and no Loaded event, in every reachable
\* state of the processor.
C8_MissingIdAlwaysYieldsError ==
    \A id \in ReqIds :
        /\ id \notin RowIds(Tables.continents) =>
               Types(load_continent(Tables, id, "ok").response) = <<"ErrorEvent">>
        /\ id \notin RowIds(Tables.country) =>
               Types(load_country(Tables, id, "ok").response) = <<"ErrorEvent">>
        /\ id \notin RowIds(Tables.regions) =>
               Types(load_region(Tables, id, "ok").response) = <<"ErrorEvent">>

\* C8 amended: a Load request for an identifier that no stored row carries
\* never yields a Loaded event.  With a connection open it yields exactly one
\* Error event, except that a storage error in the query of a continent or
\* country load is raised to the caller with no event; with no connection
\* open it yields no event.
C8_MissingIdYieldsErrorWhenConnected ==
    \A id \in ReqIds, f \in ReadFaults :
        LET c == load_continent(Tables, id, f)
            k == load_country(Tables, id, f)
            r == load_region(Tables, id, f)
            Expected(res, caught) ==
                IF connection = NoConn
                THEN res.response = <<>> /\ res.raised = NoException
                ELSE IF f = "read" /\ ~caught
                THEN res.response = <<>> /\ res.raised = "sqlite3.Error"
                ELSE Types(res.response) = <<"ErrorEvent">>
                     /\ res.raised = NoException
        IN /\ id \notin RowIds(Tables.continents) => Expected(c, FALSE)
           /\ id \notin RowIds(Tables.country) => Expected(k, FALSE)
           /\ id \notin RowIds(Tables.regions) => Expected(r, TRUE)

C8_Witness ==
    /\ connection # NoConn
    /\ request = "LoadRegionEvent"
    /\ db[connection].regions # {}
    /\ YieldsOne(response, "ErrorEvent", "Region with ID None not found")

----------------------------------------------------------------------------
\* What the round-trip law expects of a save-new result res into a table whose
\* keys were ids: the one event of type confirms carries a record whose key
\* (its field key) is set, nonzero and new, and loaded, the result of a Load
\* of that key issued next, yields that same record in an event of type loads.
RoundTrips(res, ids, confirms, key, loaded, loads) ==
    Types(res.response) = <<confirms>> =>
        LET e == res.response[1].arg
        IN /\ e[key] # NoneId
           /\ e[key] # 0
           /\ e[key] \notin ids
           /\ YieldsOne(loaded.response, loads, e)

ConfirmedKey(res, confirms, key) ==
    IF Types(res.response) = <<confirms>> THEN res.response[1].arg[key] ELSE NoneId

\* C9: for any successful save-new request with a connection open, the entity
\* in the response carries a non-null, nonzero identifier that no row held
\* before the request, whatever identifier the submitted record carried; a
\* Load of that identifier issued next yields a Loaded event whose record
\* equals the save-new response record field for field.  A save-new whose
\* statements storage executes without error is successful.
C9_SaveNewRoundTrip ==
    connection # NoConn =>
        /\ \A x \in ContinentRecords(ReqIds), f \in WriteFaults :
               LET res == save_new_continent(Tables, x, f)
                   id == ConfirmedKey(res, "ContinentSavedEvent", "continent_id")
               IN /\ RoundTrips(res, RowIds(db[connection].continents),
                                "ContinentSavedEvent", "continent_id",
                                load_continent(res.tables, id, "ok"),
                                "ContinentLoadedEvent")
                  /\ f = "ok" => Types(res.response) = <<"ContinentSavedEvent">>
        /\ \A x \in CountryRecords(ReqIds), f \in Faults :
               LET res == save_new_country(Tables, x, f)
                   id == ConfirmedKey(res, "CountryLoadedEvent", "country_id")
               IN /\ RoundTrips(res, RowIds(db[connection].country),
                                "CountryLoadedEvent", "country_id",
                                load_country(res.tables, id, "ok"),
                                "CountryLoadedEvent")
                  /\ f = "ok" => Types(res.response) = <<"CountryLoadedEvent">>
        /\ \A x \in RegionRecords(ReqIds), f \in Faults :
               LET res == save_new_region(Tables, x, f)
                   id == ConfirmedKey(res, "RegionLoadedEvent", "region_id")
               IN /\ RoundTrips(res, RowIds(db[connection].regions),
                                "RegionLoadedEvent", "region_id",
                                load_region(res.tables, id, "ok"),
                                "RegionLoadedEvent")
                  /\ f = "ok" => Types(res.response) = <<"RegionLoadedEvent">>

C9_Witness ==
    /\ connection # NoConn
    /\ request = "SaveNewContinentEvent"
    /\ Types(response) = <<"ContinentSavedEvent">>
    /\ response[1].arg.continent_id = 2
    /\ Cardinality(db[connection].continents) = 2

\* C10: for any save-existing request processed with a connection open, after
\* the call the store holds a row with the submitted identifier whose fields
\* equal the submitted record's fields; in particular a success confirmation
\* event is emitted only when such a row exists.
C10_SaveExistingStoresSubmittedRecord ==
    connection # NoConn =>
        /\ \A x \in ContinentRecords(ReqIds), f \in WriteFaults :
               LET res == save_continent(Tables, x, f)
                   stored == \E r \in res.tables.continents : Continent(r) = x
               IN /\ f = "ok" => stored
                  /\ Types(res.response) = <<"ContinentSavedEvent">> => stored
        /\ \A x \in CountryRecords(ReqIds), f \in Faults :
               LET res == save_country(Tables, x, f)
                   stored == \E r \in res.tables.country : Country(r) = x
               IN /\ f = "ok" => stored
                  /\ Types(res.response) = <<"CountryLoadedEvent">> => stored
        /\ \A x \in RegionRecords(ReqIds), f \in Faults :
               LET res == save_region(Tables, x, f)
                   stored == \E r \in res.tables.regions : Region(r) = x
               IN /\ f = "ok" => stored
                  /\ Types(res.response) = <<"RegionLoadedEvent">> => stored

----------------------------------------------------------------------------
\* What a claim about Search expects of a result res: one event of the given
\* type per row of matching, carrying that row as a record over fields, no
\* other event and no exception.
SearchAnswers(res, matching, type, fields) ==
    /\ res.raised = NoException
    /\ Len(res.response) = Cardinality(matching)
    /\ \A i \in 1..Len(res.response) : res.response[i].type = type
    /\ {res.response[i].arg : i \in 1..Len(res.response)}
           = {NamedTuple(fields, r) : r \in matching}

\* The rows of a table that satisfy every supplied filter: code filters on
\* the columns codes by equality, the name filter on column name as storage
\* matches it.
Matching(table, codes, values, name_col, name) ==
    {r \in table :
        /\ \A i \in 1..Len(codes) : Truthy(values[i]) => r[codes[i]] = values[i]
        /\ TruthyName(name) => Like(r[name_col], name)}

\* C11: with a connection open, a Start<Entity>Search request yields exactly
\* one <Entity>SearchResult event per stored row that satisfies every supplied
\* filter and no other event (none at all when no row matches), for
\* continent, country and region alike.
C11_SearchYieldsOnePerMatchingRow ==
    connection # NoConn =>
        /\ \A q \in ContinentFilters :
               SearchAnswers(search_continents(Tables, q[1], q[2], "ok"),
                             Matching(db[connection].continents, <<2>>, <<q[1]>>,
                                      3, q[2]),
                             "ContinentSearchResultEvent", ContinentFields)
        /\ \A q \in CountryFilters :
               SearchAnswers(search_countries(Tables, q[1], q[2], "ok"),
                             Matching(db[connection].country, <<2>>, <<q[1]>>,
                                      3, q[2]),
                             "CountrySearchResultEvent", CountryFields)
        /\ \A q \in RegionFilters :
               SearchAnswers(search_regions(Tables, q[1], q[2], q[3], "ok"),
                             Matching(db[connection].regions, <<2, 3>>,
                                      <<q[1], q[2]>>, 4, q[3]),
                             "RegionSearchResultEvent", RegionFields)

----------------------------------------------------------------------------
\* What a claim about a failed write expects of a result res: the one event
\* is the failure event of the family, nothing is raised, no table changes.
FailsWith(res, type) ==
    /\ Types(res.response) = <<type>>
    /\ res.raised = NoException
    /\ DbAfter(res) = db

ContinentSaves == {"SaveNewContinentEvent", "SaveContinentEvent"}
RegionSaves == {"SaveNewRegionEvent", "SaveRegionEvent"}

\* C12: when the INSERT or UPDATE of a continent or region save request fails
\* in storage, the call yields exactly one failure event of the family
\* (SaveContinentFailed, SaveRegionFailed) and no Saved, Loaded or Error
\* event, raises nothing, and leaves every table and the handle unchanged.
\* The first part states it of the handlers in every state; the second of
\* every step that ends in a failure event.
C12_FailedWriteYieldsFailureEvent ==
    /\ [](connection # NoConn =>
             /\ \A x \in ContinentRecords(ReqIds) :
                    /\ FailsWith(save_new_continent(Tables, x, "write"),
                                 "SaveContinentFailedEvent")
                    /\ FailsWith(save_continent(Tables, x, "write"),
                                 "SaveContinentFailedEvent")
             /\ \A x \in RegionRecords(ReqIds) :
                    /\ FailsWith(save_new_region(Tables, x, "write"),
                                 "SaveRegionFailedEvent")
                    /\ FailsWith(save_region(Tables, x, "write"),
                                 "SaveRegionFailedEvent"))
    /\ [][(/\ request' \in ContinentSaves \cup RegionSaves
           /\ \E i \in 1..Len(response') :
                  response'[i].type \in {"SaveContinentFailedEvent",
                                         "SaveRegionFailedEvent"})
              => /\ Len(response') = 1
                 /\ raised' = NoException
                 /\ db' = db
                 /\ connection' = connection
                 /\ live' = live]_vars

C12_Witness ==
    /\ connection # NoConn
    /\ request = "SaveRegionEvent"
    /\ Types(response) = <<"SaveRegionFailedEvent">>
    /\ raised = NoException
    /\ db[connection].regions # {}

----------------------------------------------------------------------------
\* The records of the save-existing requests a claim ranges over: those the
\* requests of the model carry, and edited ones.
CountrySubmissions ==
    {Country(<<id>> \o d) : id \in ReqIds, d \in CountryData \cup CountryEdits}
RegionSubmissions ==
    {Region(<<id>> \o d) : id \in ReqIds, d \in RegionData \cup RegionEdits}

\* No event of res has one of the types.
YieldsNone(res, types) ==
    \A i \in 1..Len(res.response) : res.response[i].type \notin types

SavedTypes == {"ContinentSavedEvent", "CountrySavedEvent", "RegionSavedEvent"}

\* What C13 expects of a successful country or region save res of record x:
\* one event of type loads, carrying a row of table after the write whose
\* fields other than the key are those of x.
ConfirmsByLoaded(res, loads, fields, table, x) ==
    /\ Len(res.response) = 1
    /\ res.response[1].type = loads
    /\ res.raised = NoException
    /\ \E r \in table : NamedTuple(fields, r) = res.response[1].arg
    /\ \A i \in 2..Len(fields) : res.response[1].arg[fields[i]] = x[fields[i]]

\* C13: the success confirmation of a save depends only on the family.  A
\* successful SaveNewContinent or SaveContinent yields exactly one
\* ContinentSaved and no ContinentLoaded; a successful save-new or
\* save-existing of a country or region yields exactly one <Entity>Loaded
\* carrying the row as stored after the write, and never a Saved event.  A
\* save is successful when storage executes its statements without error and,
\* for a country or region save-existing, a row has the submitted identifier.
C13_ConfirmationDependsOnFamily ==
    connection # NoConn =>
        /\ \A x \in ContinentRecords(ReqIds) :
               /\ Types(save_new_continent(Tables, x, "ok").response)
                      = <<"ContinentSavedEvent">>
               /\ Types(save_continent(Tables, x, "ok").response)
                      = <<"ContinentSavedEvent">>
               /\ \A f \in WriteFaults :
                      /\ YieldsNone(save_new_continent(Tables, x, f),
                                    {"ContinentLoadedEvent"})
                      /\ YieldsNone(save_continent(Tables, x, f),
                                    {"ContinentLoadedEvent"})
        /\ \A x \in CountrySubmissions :
               LET new == save_new_country(Tables, x, "ok")
                   old == save_country(Tables, x, "ok")
               IN /\ ConfirmsByLoaded(new, "CountryLoadedEvent", CountryFields,
                                      new.tables.country, x)
                  /\ x.country_id \in RowIds(db[connection].country) =>
                         /\ ConfirmsByLoaded(old, "CountryLoadedEvent",
                                             CountryFields, old.tables.country, x)
                         /\ old.response[1].arg = x
                  /\ \A f \in Faults :
                         /\ YieldsNone(save_new_country(Tables, x, f), SavedTypes)
                         /\ YieldsNone(save_country(Tables, x, f), SavedTypes)
        /\ \A x \in RegionSubmissions :
               LET new == save_new_region(Tables, x, "ok")
                   old == save_region(Tables, x, "ok")
               IN /\ ConfirmsByLoaded(new, "RegionLoadedEvent", RegionFields,
                                      new.tables.regions, x)
                  /\ x.region_id \in RowIds(db[connection].regions) =>
                         /\ ConfirmsByLoaded(old, "RegionLoadedEvent",
                                             RegionFields, old.tables.regions, x)
                         /\ old.response[1].arg = x
                  /\ \A f \in Faults :
                         /\ YieldsNone(save_new_region(Tables, x, f), SavedTypes)
                         /\ YieldsNone(save_region(Tables, x, f), SavedTypes)

C13_Witness ==
    /\ connection # NoConn
    /\ request = "SaveCountryEvent"
    /\ Types(response) = <<"CountryLoadedEvent">>
    /\ response[1].arg.country_id = 2
    /\ Cardinality(db[connection].country) = 2

----------------------------------------------------------------------------
\* How the last request ended, read from what its call left: the terminal
\* states of the per-request state machine, and "Raised" for a call that left
\* it by raising to the caller.
FailedTypes ==
    {"DatabaseOpenFailedEvent", "SaveContinentFailedEvent", "SaveRegionFailedEvent"}

Ending ==
    IF raised # NoException THEN "Raised"
    ELSE IF \E i \in 1..Len(response) :
                \/ response[i].type \in FailedTypes
                \/ response[i].type = "ErrorEvent" /\ response[i].arg = StorageMessage
    THEN "Failed"
    ELSE IF \E i \in 1..Len(response) : response[i].type = "ErrorEvent"
    THEN "NotFound"
    ELSE IF connection = NoConn /\ response = <<>> /\ request # "OpenDatabaseEvent"
    THEN "NoOp"
    ELSE "Succeeded"

\* C14: every request runs through the per-request state machine to
\* completion: it ends in exactly one of Succeeded, Failed, NotFound or NoOp
\* with its response fully produced, and no request kind leaves it by raising.
C14_EveryRequestEndsInATerminalState ==
    request # "None" => Ending \in {"Succeeded", "Failed", "NotFound", "NoOp"}

RequestTypes ==
    {"StartContinentSearchEvent", "LoadContinentEvent", "SaveNewContinentEvent",
     "SaveContinentEvent", "StartCountrySearchEvent", "LoadCountryEvent",
     "SaveNewCountryEvent", "SaveCountryEvent", "StartRegionSearchEvent",
     "LoadRegionEvent", "SaveNewRegionEvent", "SaveRegionEvent"}
ReadTypes ==
    {"StartContinentSearchEvent", "LoadContinentEvent", "StartCountrySearchEvent",
     "LoadCountryEvent", "StartRegionSearchEvent", "LoadRegionEvent"}

\* C15: the connection handle changes only while an OpenDatabase or
\* CloseDatabase request is processed: every search, load, save-new and
\* save-existing request, whether it succeeds, fails, raises or finds nothing,
\* leaves the handle (and the connections that are open) as it was; search
\* and load requests also leave every table of every store unchanged.
C15_HandleChangesOnlyInOpenAndClose ==
    /\ [][request' \in RequestTypes =>
              /\ connection' = connection
              /\ live' = live]_vars
    /\ [][request' \in ReadTypes => db' = db]_vars
    /\ [](\A res \in SearchResults \cup LoadResults : DbAfter(res) = db)

C15_Witness ==
    /\ connection # NoConn
    /\ request = "SaveCountryEvent"
    /\ raised = "sqlite3.Error"
    /\ response = <<>>
    /\ db[connection].country # {}

----------------------------------------------------------------------------
\* C16: with a connection open, every RegionSearchResult event yielded by
\* StartRegionSearch carries the complete eight-field Region record of its
\* matching row, equal to what LoadRegion yields for the same identifier; a
\* region search over a table with at least one matching row completes
\* without raising (and yields a result for it).
C16_RegionSearchCarriesFullRecord ==
    connection # NoConn =>
        \A q \in RegionFilters :
            LET res == search_regions(Tables, q[1], q[2], q[3], "ok")
                matching == Matching(db[connection].regions, <<2, 3>>,
                                     <<q[1], q[2]>>, 4, q[3])
            IN /\ res.raised = NoException
               /\ matching # {} => res.response # <<>>
               /\ \A i \in 1..Len(res.response) :
                      LET e == res.response[i]
                      IN /\ e.type = "RegionSearchResultEvent"
                         /\ DOMAIN e.arg = {RegionFields[k] : k \in 1..Len(RegionFields)}
                         /\ YieldsOne(load_region(Tables, e.arg.region_id, "ok").response,
                                      "RegionLoadedEvent", e.arg)

----------------------------------------------------------------------------
\* What C17 expects of a result res of a call in which a statement raised a
\* storage error: translated into one event of a type among types, or raised
\* to the caller with no event.
Translated(res, types) ==
    /\ Len(res.response) = 1
    /\ res.response[1].type \in types
    /\ res.response[1].arg = StorageMessage
    /\ res.raised = NoException

Propagated(res) ==
    /\ res.response = <<>>
    /\ res.raised = "sqlite3.Error"

\* C17: a storage error raised while a handler that has a catch is executing
\* is translated into a response event and never raised to the caller: in a
\* region search or region load it yields exactly one Error(message) (and in
\* a continent or region save one failure or Error event); whereas a storage
\* error in a continent or country search, or in a country save-new or
\* save-existing, yields no response event and propagates to the caller with
\* the connection handle still open.
C17_StorageErrorTranslatedWhereCaught ==
    /\ [](connection # NoConn =>
             /\ \A q \in RegionFilters :
                    Translated(search_regions(Tables, q[1], q[2], q[3], "read"),
                               {"ErrorEvent"})
             /\ \A id \in ReqIds :
                    Translated(load_region(Tables, id, "read"), {"ErrorEvent"})
             /\ \A x \in ContinentRecords(ReqIds) :
                    /\ Translated(save_new_continent(Tables, x, "write"),
                                  {"SaveContinentFailedEvent"})
                    /\ Translated(save_continent(Tables, x, "write"),
                                  {"SaveContinentFailedEvent"})
             /\ \A x \in RegionSubmissions, f \in {"write", "read"} :
                    /\ Translated(save_new_region(Tables, x, f),
                                  {"SaveRegionFailedEvent", "ErrorEvent"})
                    /\ Translated(save_region(Tables, x, f),
                                  {"SaveRegionFailedEvent", "ErrorEvent"})
             /\ \A q \in ContinentFilters :
                    Propagated(search_continents(Tables, q[1], q[2], "read"))
             /\ \A q \in CountryFilters :
                    Propagated(search_countries(Tables, q[1], q[2], "read"))
             /\ \A x \in CountrySubmissions, f \in {"write", "read"} :
                    /\ Propagated(save_new_country(Tables, x, f))
                    /\ Propagated(save_country(Tables, x, f)))
    /\ [][(request' \in RequestTypes /\ raised' = "sqlite3.Error") =>
              /\ connection' = connection
              /\ connection' # NoConn
              /\ response' = <<>>]_vars

C17_Witness ==
    /\ connection # NoConn
    /\ request = "StartRegionSearchEvent"
    /\ YieldsOne(response, "ErrorEvent", StorageMessage)
    /\ raised = NoException
    /\ db[connection].regions # {}

----------------------------------------------------------------------------
\* once and twice are the results of a save-existing request and of the same
\* request processed again on the tables the first call left.
SameAsOnce(once, twice) ==
    /\ twice.tables = once.tables
    /\ twice.response = once.response
    /\ twice.raised = once.raised

\* C18: save-existing is idempotent: processing the same SaveContinent,
\* SaveCountry or SaveRegion request twice in a row with identical data (and
\* storage behaving the same way in both calls) leaves the store in the same
\* state as processing it once, and the second call yields the same response
\* events as the first.
C18_SaveExistingIdempotent ==
    connection # NoConn =>
        /\ \A x \in ContinentRecords(ReqIds), f \in WriteFaults :
               LET once == save_continent(Tables, x, f)
               IN SameAsOnce(once, save_continent(once.tables, x, f))
        /\ \A x \in CountrySubmissions, f \in Faults :
               LET once == save_country(Tables, x, f)
               IN SameAsOnce(once, save_country(once.tables, x, f))
        /\ \A x \in RegionSubmissions, f \in Faults :
               LET once == save_region(Tables, x, f)
               IN SameAsOnce(once, save_region(once.tables, x, f))

C18_Witness ==
    /\ connection # NoConn
    /\ request = "SaveContinentEvent"
    /\ YieldsOne(response, "ContinentSavedEvent", Continent(<<1, "EU", Europe>>))
    /\ db[connection].continents = {<<1, "EU", Europe>>, <<2, "AS", Asia>>}

----------------------------------------------------------------------------
\* The primary keys and the number of rows of every table.
TableNames == {"continents", "country", "regions"}
KeysOf(t) == [n \in TableNames |-> RowIds(t[n])]
SizesOf(t) == [n \in TableNames |-> Cardinality(t[n])]
Keys(d) == [p \in DOMAIN d |-> KeysOf(d[p])]
Sizes(d) == [p \in DOMAIN d |-> SizesOf(d[p])]

SaveNewTypes ==
    {"SaveNewContinentEvent", "SaveNewCountryEvent", "SaveNewRegionEvent"}

\* after holds the rows of before and one more, under a new key, in table n.
AddsOneKeyTo(before, after, n) ==
    /\ \E k \in RowIds(after[n]) \ RowIds(before[n]) :
           RowIds(after[n]) = RowIds(before[n]) \cup {k}
    /\ Cardinality(after[n]) = Cardinality(before[n]) + 1
    /\ \A m \in TableNames \ {n} : after[m] = before[m]

\* This step adds or removes a row, or changes the keys of a table.
RowsChange ==
    /\ db' # db
    /\ Keys(db') # Keys(db) \/ Sizes(db') # Sizes(db)

\* This step adds exactly one new key to exactly one table of one store.
AddsOneKey ==
    \E p \in Paths, n \in TableNames :
        /\ AddsOneKeyTo(db[p], db'[p], n)
        /\ \A q \in Paths \ {p} : db'[q] = db[q]

\* What holds of the handlers in every state with a connection open: a
\* save-new whose INSERT is executed adds one key to its table; a
\* save-existing adds and removes no row; one whose identifier matches no row
\* stores nothing and, storage executing the statements without error, yields
\* for country and region exactly one Error("<Entity> with ID <id> not found").
KeysUnderSaves ==
    connection # NoConn =>
        /\ \A x \in ContinentRecords(ReqIds) :
               /\ AddsOneKeyTo(Tables, save_new_continent(Tables, x, "ok").tables,
                               "continents")
               /\ \A f \in WriteFaults :
                      LET res == save_continent(Tables, x, f)
                      IN /\ KeysOf(res.tables) = KeysOf(Tables)
                         /\ SizesOf(res.tables) = SizesOf(Tables)
                         /\ x.continent_id \notin RowIds(Tables.continents) =>
                                res.tables = Tables
        /\ \A x \in CountrySubmissions :
               /\ \A f \in {"ok", "read"} :
                      AddsOneKeyTo(Tables, save_new_country(Tables, x, f).tables,
                                   "country")
               /\ \A f \in Faults :
                      LET res == save_country(Tables, x, f)
                      IN /\ KeysOf(res.tables) = KeysOf(Tables)
                         /\ SizesOf(res.tables) = SizesOf(Tables)
                         /\ x.country_id \notin RowIds(Tables.country) =>
                                /\ res.tables = Tables
                                /\ f = "ok" =>
                                       YieldsOne(res.response, "ErrorEvent",
                                                 "Country with ID "
                                                     \o IdStr(x.country_id)
                                                     \o " not found")
        /\ \A x \in RegionSubmissions :
               /\ \A f \in {"ok", "read"} :
                      AddsOneKeyTo(Tables, save_new_region(Tables, x, f).tables,
                                   "regions")
               /\ \A f \in Faults :
                      LET res == save_region(Tables, x, f)
                      IN /\ KeysOf(res.tables) = KeysOf(Tables)
                         /\ SizesOf(res.tables) = SizesOf(Tables)
                         /\ x.region_id \notin RowIds(Tables.regions) =>
                                /\ res.tables = Tables
                                /\ f = "ok" =>
                                       YieldsOne(res.response, "ErrorEvent",
                                                 "Region with ID "
                                                     \o IdStr(x.region_id)
                                                     \o " not found")

\* C19 as stated: the set of primary keys in each table changes only through
\* a successful save-new (one that ends in Succeeded), which adds exactly one
\* new key to exactly one table; save-existing, search, load, open and close
\* never add or remove a row, and a save-existing whose identifier matches no
\* row stores nothing and for country and region yields the not-found Error.
C19_KeysChangeOnlyBySuccessfulSaveNew ==
    /\ []KeysUnderSaves
    /\ [][RowsChange =>
              /\ request' \in SaveNewTypes
              /\ Ending' = "Succeeded"
              /\ AddsOneKey]_vars

\* C19 amended: the set of primary keys in each table changes only through a
\* save-new whose INSERT is executed, which adds exactly one new key to
\* exactly one table, also when the reload after it fails and the request
\* ends in an Error event (region) or raises (country); save-existing,
\* search, load, open and close never add or remove a row, and a
\* save-existing whose identifier matches no row stores nothing and for
\* country and region yields the not-found Error.
C19_KeysChangeOnlyByExecutedInsert ==
    /\ []KeysUnderSaves
    /\ [][RowsChange =>
              /\ request' \in SaveNewTypes
              /\ AddsOneKey]_vars
    /\ [][request' \notin SaveNewTypes => ~RowsChange]_vars

C19_Witness ==
    /\ connection # NoConn
    /\ request = "SaveNewRegionEvent"
    /\ YieldsOne(response, "ErrorEvent", StorageMessage)
    /\ Cardinality(db[connection].regions) = 2

----------------------------------------------------------------------------
\* The filters the claim about matching ranges over: those of the requests
\* of the model, and codes and names in another case, parts of names, and
\* pairs of which only one matches.
ContinentQueries ==
    ContinentFilters
    \cup {<<"as", <<>>>>, <<"EU", Asia>>, <<"", <<"s", "i">>>>,
          <<"", <<"S", "I">>>>, <<"", <<"a", "A">>>>, <<"", <<"e">>>>,
          <<"", <<"E">>>>}
CountryQueries ==
    CountryFilters
    \cup {<<"jp", <<>>>>, <<"", <<"j", "a", "p", "a", "n">>>>,
          <<"", <<"P", "A">>>>, <<"", <<"p", "a">>>>, <<"JP", <<"x">>>>}
RegionQueries ==
    RegionFilters
    \cup {<<"jp-13", "", <<>>>>, <<"", "13", <<"t", "o", "k", "y", "o">>>>,
          <<"", "", <<"K", "Y">>>>, <<"", "", <<"k", "y">>>>,
          <<"JP-13", "14", <<>>>>}

\* name occurs in value as a substring, the characters compared as they are.
OccursIn(value, name) ==
    \E i \in 1..(Len(value) - Len(name) + 1) :
        SubSeq(value, i, i + Len(name) - 1) = name

\* The same, a letter being also the same as its other case.
SameLetter(a, b) ==
    \/ a = b
    \/ \E k \in 1..Len(UpperCase) : {a, b} = {UpperCase[k], LowerCase[k]}

OccursInIgnoringCase(value, name) ==
    \E i \in 1..(Len(value) - Len(name) + 1) :
        \A j \in 1..Len(name) : SameLetter(value[i + j - 1], name[j])

\* The rows a search is expected to select: every supplied code filter equals
\* its column, and the name filter, if supplied, occurs in the name as
\* Occurs tells.
Selected(Occurs(_, _), table, codes, values, name_col, name) ==
    {r \in table :
        /\ \A i \in 1..Len(codes) : values[i] # "" => r[codes[i]] = values[i]
        /\ name # <<>> => Occurs(r[name_col], name)}

\* A search selects by the rule Occurs: the continent and country searches
\* yield exactly the selected rows; the region search, which builds its
\* results from seven columns, raises TypeError exactly when it selects a row
\* and yields nothing otherwise.
SelectsBy(Occurs(_, _)) ==
    /\ \A q \in ContinentQueries :
           SearchAnswers(search_continents(Tables, q[1], q[2], "ok"),
                         Selected(Occurs, Tables.continents, <<2>>, <<q[1]>>,
                                  3, q[2]),
                         "ContinentSearchResultEvent", ContinentFields)
    /\ \A q \in CountryQueries :
           SearchAnswers(search_countries(Tables, q[1], q[2], "ok"),
                         Selected(Occurs, Tables.country, <<2>>, <<q[1]>>,
                                  3, q[2]),
                         "CountrySearchResultEvent", CountryFields)
    /\ \A q \in RegionQueries :
           LET res == search_regions(Tables, q[1], q[2], q[3], "ok")
               rows == Selected(Occurs, Tables.regions, <<2, 3>>,
                                <<q[1], q[2]>>, 4, q[3])
           IN /\ res.response = <<>>
              /\ res.raised = IF rows = {} THEN NoException ELSE "TypeError"

\* C20 as stated: in a search, a code filter selects a row exactly when the
\* row's field equals the filter value, and a name filter selects a row
\* exactly when the filter value occurs in the row's name as a case-sensitive
\* substring.
C20_NameFilterCaseSensitive ==
    connection # NoConn => SelectsBy(OccursIn)

\* C20 amended: a code filter selects a row exactly when the row's field
\* equals the filter value (case-sensitively), and a name filter selects a
\* row exactly when the filter value occurs in the row's name as a substring
\* compared without regard to the case of ASCII letters; so
\* StartContinentSearch(name="Asia"), and equally name="asia", over a table
\* holding "Asia" and "Europe" yields exactly one ContinentSearchResult, for
\* "Asia".
C20_NameFilterIgnoresCase ==
    connection # NoConn =>
        /\ SelectsBy(OccursInIgnoringCase)
        /\ (/\ Cardinality(Tables.continents) = 2
            /\ {r[3] : r \in Tables.continents} = {Asia, Europe}) =>
               \A name \in {Asia, LowerAsia} :
                   LET res == search_continents(Tables, "", name, "ok")
                   IN /\ Types(res.response) = <<"ContinentSearchResultEvent">>
                      /\ res.response[1].arg.name = Asia

C20_Witness ==
    /\ connection # NoConn
    /\ request = "StartContinentSearchEvent"
    /\ Cardinality(db[connection].continents) = 2
    /\ {r[3] : r \in db[connection].continents} = {Asia, Europe}
    /\ Types(response) = <<"ContinentSearchResultEvent">>
    /\ response[1].arg.name = Asia

====
